---- MODULE Spec2Model ----
(***************************************************************************)
(* A model of the room lottery of whatwoods/yaohao: LotteryModule          *)
(* (src/js/lottery.js, the second definition, lines 242-474, which is the  *)
(* one the spec describes) with its allocator performLottery, the room     *)
(* label parser parseRoomNumber, the Fisher-Yates shuffleArray and the     *)
(* roll session init / startRolling / stopRolling / getCurrentData driven   *)
(* by setInterval, and the row filter of ExcelModule.readFile              *)
(* (src/js/excel.js:11-94) that produces the entries handed to init.       *)
(*                                                                         *)
(* Strings the code takes apart (room labels) are sequences of Unicode     *)
(* code points, so that split('-'), join('-') and the regular expression   *)
(* /^[A-Za-z]$/ are computed as the code computes them.  Sequences are     *)
(* 1-based here where JavaScript arrays are 0-based: originalIndex i of    *)
(* the code is position i + 1 of the model.                                *)
(***************************************************************************)
EXTENDS Integers, Sequences, FiniteSets, TLC

VARIABLES
    \* LotteryModule's fields (lottery.js:243-246)
    originalData, currentData, isRolling, rollInterval,
    \* the browser's live setInterval timers: id -> the array `data` the
    \* callback closed over (lottery.js:423-426), and how many were created
    timers, timersCreated,
    \* what a caller observes of the handler that runs or ran last: its name,
    \* the updateCallback calls it made, what it returned or threw
    call, updates, ret,
    \* the position inside the running handler ("idle": none is running)
    pc,
    \* performLottery's locals (lottery.js:289-402)
    maleEmployees, femaleEmployees, sharedRooms, singleRooms,
    unassignedSharedRooms, result, remainingEmployees, allSingleRooms,
    groupIdx, finalResult,
    \* the argument and the value of a parseRoomNumber call
    parseInput, parseOutput,
    \* the array the caller handed to init, as the caller holds it now, and
    \* whether originalData shares its objects (lottery.js:253)
    passedData, originalIsPassed,
    \* the rows of the sheet readFile goes through and the array it resolves
    \* with (excel.js:21-70)
    jsonData, readData,
    \* the page (app.js:7-19): the two flags, which of the sections and buttons
    \* carry the class 'hidden', what the table body shows and whether its rows
    \* carry the class 'rolling'
    isLotteryStarted, isLotteryComplete, lotterySectionHidden, exportBtnsHidden,
    homeBtnHidden, tableBody,
    \* the handleFile calls waiting for readFile (app.js:85): call number -> the
    \* entries readFile will resolve with, and how many calls were made
    pendingFiles, filesSelected,
    \* the rows the last export wrote, header left out (excel.js:103-115, 146)
    sortedData,
    \* the argument of a shuffleArray call and the array after it
    shuffleInput, shuffleOutput,
    \* the locals of the first definition of performLottery (lottery.js:53-160)
    \* run beside the second on the same random outcomes
    first

sessionVars == <<originalData, currentData, isRolling, rollInterval, timers, timersCreated>>
observeVars == <<call, updates, ret>>
lotteryVars == <<maleEmployees, femaleEmployees, sharedRooms, singleRooms,
                 unassignedSharedRooms, result, remainingEmployees, allSingleRooms,
                 groupIdx, finalResult>>
parserVars == <<parseInput, parseOutput>>
callerVars == <<passedData, originalIsPassed>>
readerVars == <<jsonData, readData>>
appVars == <<isLotteryStarted, isLotteryComplete, lotterySectionHidden, exportBtnsHidden,
             homeBtnHidden, tableBody, pendingFiles, filesSelected, sortedData>>
shuffleVars == <<shuffleInput, shuffleOutput>>
\* what the handlers of LotteryModule and readFile never touch
outerVars == <<appVars, shuffleVars, first>>
vars == <<sessionVars, observeVars, pc, lotteryVars, parserVars, callerVars, readerVars,
          outerVars>>

----------------------------------------------------------------------------
\* Bounds of the model.

\* the longest dataset handed to performLottery
MaxEntries == 4
\* how many setInterval timers one behaviour may create
MaxTimers == 3
\* the longest generated label handed to parseRoomNumber
MaxLabelLen == 6
\* how many rows a sheet has below its header
MaxRows == 2
\* the longest array handed to shuffleArray on its own
MaxShuffleLen == 4
\* how many files one behaviour of the page may select
MaxFiles == 2

----------------------------------------------------------------------------
\* Values.

\* the gender '男' (lottery.js:300)
Male == "Male"
\* the gender '女' (lottery.js:301)
Female == "Female"
\* a gender cell that is neither: readFile keeps it as it is (excel.js:46-54)
Other == "Other"
Genders == {Male, Female, Other}

\* null as the bedroom of a label without one (lottery.js:280); a bedroom that is
\* present is one letter, so the empty sequence is free to stand for null
null == <<>>
\* null as rollInterval (lottery.js:246): falsy like no timer id ever is
NoTimer == 0

\* "南-16-1-1001-A", "南-16-1-1001-B", "南-16-1-1001-C", "南-16-1-1001"
LabelSouthA == <<21335, 45, 49, 54, 45, 49, 45, 49, 48, 48, 49, 45, 65>>
LabelSouthB == <<21335, 45, 49, 54, 45, 49, 45, 49, 48, 48, 49, 45, 66>>
LabelSouthC == <<21335, 45, 49, 54, 45, 49, 45, 49, 48, 48, 49, 45, 67>>
LabelSouth == <<21335, 45, 49, 54, 45, 49, 45, 49, 48, 48, 49>>
\* "南-16-1-1002-A", "南-16-1-1002-B"
LabelNextA == <<21335, 45, 49, 54, 45, 49, 45, 49, 48, 48, 50, 45, 65>>
LabelNextB == <<21335, 45, 49, 54, 45, 49, 45, 49, 48, 48, 50, 45, 66>>
\* "R1-A", "R1-B", "R2", "R3"
LabelR1A == <<82, 49, 45, 65>>
LabelR1B == <<82, 49, 45, 66>>
LabelR2 == <<82, 50>>
LabelR3 == <<82, 51>>
\* "20", "3": labels that are array-index property names
Label20 == <<50, 48>>
Label3 == <<51>>
\* "constructor": a label that names a property of Object.prototype
LabelConstructor == <<99, 111, 110, 115, 116, 114, 117, 99, 116, 111, 114>>

\* the employee ids of a dataset: readFile drops a row whose id was seen before
\* (excel.js:57-61), so the ids of a dataset are distinct
EmployeeIds == <<"E1", "E2", "E3", "E4", "E5">>

Range(s) == {s[i] : i \in DOMAIN s}

----------------------------------------------------------------------------
\* parseRoomNumber (lottery.js:264-282)

\* String.prototype.split with a one-character separator: the segments between
\* the separators, empty ones included; "" splits into one empty segment
RECURSIVE split(_, _)
split(s, sep) ==
    IF \A i \in 1..Len(s) : s[i] # sep
    THEN <<s>>
    ELSE LET i == CHOOSE k \in 1..Len(s) : s[k] = sep /\ \A m \in 1..(k - 1) : s[m] # sep
         IN  <<SubSeq(s, 1, i - 1)>> \o split(SubSeq(s, i + 1, Len(s)), sep)

\* Array.prototype.join with a one-character separator
RECURSIVE join(_, _)
join(parts, sep) ==
    IF Len(parts) = 0 THEN <<>>
    ELSE IF Len(parts) = 1 THEN parts[1]
    ELSE parts[1] \o <<sep>> \o join(Tail(parts), sep)

\* /^[A-Za-z]$/.test(lastPart) (lottery.js:269)
isBedroomSuffix(lastPart) ==
    /\ Len(lastPart) = 1
    /\ lastPart[1] \in (65..90) \cup (97..122)

parseRoomNumber_NoCount(roomNumber) ==
    LET parts == split(roomNumber, 45)
        lastPart == parts[Len(parts)]
    IN  IF isBedroomSuffix(lastPart) /\ Len(parts) > 1
        THEN [baseRoom |-> join(SubSeq(parts, 1, Len(parts) - 1), 45), bedroom |-> lastPart]
        ELSE [baseRoom |-> roomNumber, bedroom |-> null]

parseRoomNumber_MoreThanFive(roomNumber) ==
    LET parts == split(roomNumber, 45)
        lastPart == parts[Len(parts)]
    IN  IF isBedroomSuffix(lastPart) /\ Len(parts) > 5
        THEN [baseRoom |-> join(SubSeq(parts, 1, Len(parts) - 1), 45), bedroom |-> lastPart]
        ELSE [baseRoom |-> roomNumber, bedroom |-> null]

parseRoomNumber(roomNumber) ==
    LET parts == split(roomNumber, 45)
        lastPart == parts[Len(parts)]
    IN  IF isBedroomSuffix(lastPart) /\ Len(parts) > 4
        THEN [baseRoom |-> join(SubSeq(parts, 1, Len(parts) - 1), 45), bedroom |-> lastPart]
        ELSE [baseRoom |-> roomNumber, bedroom |-> null]

----------------------------------------------------------------------------
\* shuffleArray (lottery.js:408-413)

\* the draws of one shuffle of n elements: for each i from the last position
\* down to the second, Math.floor(Math.random() * (i + 1)) is any position <= i
Draws_BelowI(n) == {d \in [2..n -> 1..n] : \A i \in 2..n : d[i] < i}

Draws(n) == {d \in [2..n -> 1..n] : \A i \in 2..n : d[i] <= i}

Swap(array, i, j) == [array EXCEPT ![i] = array[j], ![j] = array[i]]

RECURSIVE shuffleFrom(_, _, _)
shuffleFrom(array, i, d) ==
    IF i < 2 THEN array ELSE shuffleFrom(Swap(array, i, d[i]), i - 1, d)

shuffleArray(array, d) == shuffleFrom(array, Len(array), d)

\* every array one shuffleArray call can leave behind
Shuffles(array) == {shuffleArray(array, d) : d \in Draws(Len(array))}

\* one shuffleArray call on its own (lottery.js:408-413)
ShuffleCall ==
    /\ pc = "shuffleArray"
    /\ \E d \in Draws(Len(shuffleInput)) : shuffleOutput' = shuffleArray(shuffleInput, d)
    /\ pc' = "shuffled"
    /\ UNCHANGED <<sessionVars, observeVars, lotteryVars, parserVars, callerVars, readerVars,
                   appVars, first, shuffleInput>>

----------------------------------------------------------------------------
\* The datasets.

\* the room columns the datasets are built from, every one with every column
\* of genders
RoomLists ==
    { <<LabelR2>>, <<LabelConstructor>>,
      <<LabelSouthA, LabelSouthB>>, <<LabelR2, LabelR2>>, <<Label20, Label3>>,
      <<LabelR1A, LabelR1B, LabelR2>>,
      <<LabelSouthA, LabelSouthB, LabelR2>>,
      <<LabelSouthA, LabelR2, LabelSouthB>>,
      <<LabelSouthA, LabelSouthB, LabelSouthC>>,
      <<Label20, Label3, LabelR2>>,
      <<LabelSouthA, LabelSouthB, LabelNextA, LabelNextB>>,
      <<LabelSouthA, LabelR2, LabelSouthB, LabelR3>>,
      <<LabelSouthA, LabelSouthB, LabelSouthC, LabelNextA, LabelNextB>> }

\* the rows readFile pushes (excel.js:63-67): row i carries the i-th id
MakeData(genders, rooms) ==
    [i \in 1..Len(rooms) |->
        [employeeId |-> EmployeeIds[i], gender |-> genders[i], roomNumber |-> rooms[i]]]

DatasetsUpTo(n) ==
    UNION { { MakeData(g, rooms) : g \in [1..Len(rooms) -> Genders] } :
            rooms \in {r \in RoomLists : Len(r) <= n} }

\* the datasets handed to performLottery
Inputs == DatasetsUpTo(MaxEntries)

\* the datasets handed to init in the session specification: two bedrooms of
\* one room for a man and a woman, one single room, the same label twice, and
\* a label on which performLottery throws
SessionInputs ==
    { MakeData(<<Male, Female>>, <<LabelSouthA, LabelSouthB>>),
      MakeData(<<Female>>, <<LabelR2>>),
      MakeData(<<Male, Male>>, <<LabelR2, LabelR2>>),
      MakeData(<<Male>>, <<LabelConstructor>>) }

\* JSON.parse(JSON.stringify(data)) (lottery.js:253-254, 290): a fresh array of
\* fresh rows holding the three string fields
JsonClone(data) ==
    [i \in 1..Len(data) |->
        [employeeId |-> data[i].employeeId,
         gender |-> data[i].gender,
         roomNumber |-> data[i].roomNumber]]

----------------------------------------------------------------------------
\* performLottery: room groups (lottery.js:303-327)

\* the property names every object inherits from Object.prototype: for these,
\* roomGroups[name] is truthy before anything was stored under the name
ObjectPrototypeKeys ==
    { <<99, 111, 110, 115, 116, 114, 117, 99, 116, 111, 114>>,
      <<95, 95, 100, 101, 102, 105, 110, 101, 71, 101, 116, 116, 101, 114, 95, 95>>,
      <<95, 95, 100, 101, 102, 105, 110, 101, 83, 101, 116, 116, 101, 114, 95, 95>>,
      <<104, 97, 115, 79, 119, 110, 80, 114, 111, 112, 101, 114, 116, 121>>,
      <<95, 95, 108, 111, 111, 107, 117, 112, 71, 101, 116, 116, 101, 114, 95, 95>>,
      <<95, 95, 108, 111, 111, 107, 117, 112, 83, 101, 116, 116, 101, 114, 95, 95>>,
      <<105, 115, 80, 114, 111, 116, 111, 116, 121, 112, 101, 79, 102>>,
      <<112, 114, 111, 112, 101, 114, 116, 121, 73, 115, 69, 110, 117, 109, 101, 114, 97, 98, 108, 101>>,
      <<116, 111, 83, 116, 114, 105, 110, 103>>,
      <<118, 97, 108, 117, 101, 79, 102>>,
      <<95, 95, 112, 114, 111, 116, 111, 95, 95>>,
      <<116, 111, 76, 111, 99, 97, 108, 101, 83, 116, 114, 105, 110, 103>> }

roomInfoOf(room, index) ==
    [fullRoom |-> room, bedroom |-> parseRoomNumber(room).bedroom, originalIndex |-> index]

\* rooms.forEach (lottery.js:305-315) from position `index` on.  `groups` is the
\* own properties of roomGroups in the order they were created, each
\* [baseRoom, roomList].  A baseRoom that names an inherited property finds a
\* truthy value that has no push: the call throws a TypeError (threw = TRUE).
RECURSIVE addRooms(_, _, _)
addRooms(groups, rooms, index) ==
    IF index > Len(rooms) THEN [threw |-> FALSE, groups |-> groups]
    ELSE LET baseRoom == parseRoomNumber(rooms[index]).baseRoom
             own == {g \in 1..Len(groups) : groups[g].baseRoom = baseRoom}
         IN  IF own = {} /\ baseRoom \in ObjectPrototypeKeys
             THEN [threw |-> TRUE, groups |-> groups]
             ELSE IF own = {}
             THEN addRooms(Append(groups, [baseRoom |-> baseRoom,
                                            roomList |-> <<roomInfoOf(rooms[index], index)>>]),
                           rooms, index + 1)
             ELSE LET g == CHOOSE x \in own : TRUE
                  IN  addRooms([groups EXCEPT ![g].roomList =
                                    Append(@, roomInfoOf(rooms[index], index))],
                               rooms, index + 1)

\* the order of the numbers two canonical strings of decimal digits write: the
\* shorter string writes the smaller number, and of two of one length the
\* first that has the smaller digit where they differ
digitsLess(a, b) ==
    \/ Len(a) < Len(b)
    \/ /\ Len(a) = Len(b)
       /\ \E i \in 1..Len(a) : a[i] < b[i] /\ \A j \in 1..(i - 1) : a[j] = b[j]

\* an array-index property name: the canonical decimal form of an integer
\* below 2^32 - 1 = 4294967295
isArrayIndex(key) ==
    /\ Len(key) >= 1
    /\ \A i \in 1..Len(key) : key[i] \in 48..57
    /\ Len(key) > 1 => key[1] # 48
    /\ digitsLess(key, <<52, 50, 57, 52, 57, 54, 55, 50, 57, 53>>)

RECURSIVE ascending(_)
ascending(S) ==
    IF S = {} THEN <<>>
    ELSE LET m == CHOOSE g \in S : \A h \in S \ {g} : digitsLess(g.baseRoom, h.baseRoom)
         IN  <<m>> \o ascending(S \ {m})

\* Object.entries(roomGroups) (lottery.js:321): array-index names first, in
\* ascending numeric order, then the other names in the order of creation
objectEntries(groups) ==
    ascending({g \in Range(groups) : isArrayIndex(g.baseRoom)})
        \o SelectSeq(groups, LAMBDA g : ~isArrayIndex(g.baseRoom))

\* lottery.js:322-326
isShared(roomList) == Len(roomList) >= 2

sharedRoomsOf(entries) ==
    LET sharedEntries == SelectSeq(entries, LAMBDA g : isShared(g.roomList))
    IN  [i \in 1..Len(sharedEntries) |-> sharedEntries[i].roomList]

singleRoomsOf(entries) ==
    LET singleEntries == SelectSeq(entries, LAMBDA g : ~isShared(g.roomList))
    IN  [i \in 1..Len(singleEntries) |-> singleEntries[i].roomList[1]]

\* employees.filter(e => e.gender === gender) (lottery.js:293-296, 300-301)
employeesOf(data, gender) ==
    LET employees == [i \in 1..Len(data) |->
                         [employeeId |-> data[i].employeeId, gender |-> data[i].gender]]
    IN  SelectSeq(employees, LAMBDA e : e.gender = gender)

----------------------------------------------------------------------------
\* performLottery: filling the rooms (lottery.js:339-401)

rowOf_BaseRoom(employee, fullRoom) ==
    [employeeId |-> employee.employeeId, gender |-> employee.gender,
     roomNumber |-> parseRoomNumber(fullRoom).baseRoom]

rowOf(employee, fullRoom) ==
    [employeeId |-> employee.employeeId, gender |-> employee.gender, roomNumber |-> fullRoom]

\* result[index] = row on the sparse array `result` (lottery.js:334): the
\* positions never assigned are holes, here positions outside the domain
put(res, index, row) ==
    [k \in (DOMAIN res) \cup {index} |-> IF k = index THEN row ELSE res[k]]

\* the pool the group takes its people from (lottery.js:345-353): "none" is
\* selectedPool left null
selectPool_MaleOnly(maleLength, femaleLength, roomCount, coin) ==
    IF maleLength >= roomCount /\ femaleLength >= roomCount
    THEN (IF coin THEN "male" ELSE "female")
    ELSE IF maleLength >= roomCount THEN "male"
    ELSE "none"

selectPool(maleLength, femaleLength, roomCount, coin) ==
    IF maleLength >= roomCount /\ femaleLength >= roomCount
    THEN (IF coin THEN "male" ELSE "female")
    ELSE IF maleLength >= roomCount THEN "male"
    ELSE IF femaleLength >= roomCount THEN "female"
    ELSE "none"

\* the loop taking the last member of the pool (pop) instead of the first
RECURSIVE fillGroup_LastFirst(_, _, _)
fillGroup_LastFirst(res, pool, roomGroup) ==
    IF Len(roomGroup) = 0 THEN [result |-> res, pool |-> pool]
    ELSE fillGroup_LastFirst(put(res, Head(roomGroup).originalIndex,
                                 rowOf(pool[Len(pool)], Head(roomGroup).fullRoom)),
                             SubSeq(pool, 1, Len(pool) - 1), Tail(roomGroup))

\* for (const roomInfo of roomGroup) { selectedPool.shift() ... } (lottery.js:364-371)
RECURSIVE fillGroup(_, _, _)
fillGroup(res, pool, roomGroup) ==
    IF Len(roomGroup) = 0 THEN [result |-> res, pool |-> pool]
    ELSE fillGroup(put(res, Head(roomGroup).originalIndex,
                       rowOf(Head(pool), Head(roomGroup).fullRoom)),
                   Tail(pool), Tail(roomGroup))

\* for (const roomInfo of allSingleRooms) { if (remainingEmployees.length > 0) ... }
\* (lottery.js:383-393)
RECURSIVE fillSingles_NoShift(_, _, _)
fillSingles_NoShift(res, pool, rooms) ==
    IF Len(rooms) = 0 THEN [result |-> res, pool |-> pool]
    ELSE IF Len(pool) > 0
    THEN fillSingles_NoShift(put(res, Head(rooms).originalIndex,
                                 rowOf(Head(pool), Head(rooms).fullRoom)),
                             pool, Tail(rooms))
    ELSE fillSingles_NoShift(res, pool, Tail(rooms))

RECURSIVE fillSingles(_, _, _)
fillSingles(res, pool, rooms) ==
    IF Len(rooms) = 0 THEN [result |-> res, pool |-> pool]
    ELSE IF Len(pool) > 0
    THEN fillSingles(put(res, Head(rooms).originalIndex,
                         rowOf(Head(pool), Head(rooms).fullRoom)),
                     Tail(pool), Tail(rooms))
    ELSE fillSingles(res, pool, Tail(rooms))

\* result.filter(r => r !== undefined && r !== null) (lottery.js:396): the
\* assigned positions of 1..n in ascending order
RECURSIVE filterAssigned(_, _, _)
filterAssigned(res, index, n) ==
    IF index > n THEN <<>>
    ELSE IF index \in DOMAIN res
    THEN <<res[index]>> \o filterAssigned(res, index + 1, n)
    ELSE filterAssigned(res, index + 1, n)

\* the loop over sharedRooms (lottery.js:341-372) as a function: every
\* [male, female, result, unassigned] it can end in, over the outcomes of
\* Math.random() < 0.5
RECURSIVE afterShared(_, _, _, _, _)
afterShared(male, female, shared, res, unassigned) ==
    IF Len(shared) = 0
    THEN {[male |-> male, female |-> female, result |-> res, unassigned |-> unassigned]}
    ELSE UNION {
            LET roomGroup == Head(shared)
                selectedPool == selectPool(Len(male), Len(female), Len(roomGroup), coin)
            IN  IF selectedPool = "none"
                THEN afterShared(male, female, Tail(shared), res, unassigned \o roomGroup)
                ELSE IF selectedPool = "male"
                THEN LET filled == fillGroup(res, male, roomGroup)
                     IN  afterShared(filled.pool, female, Tail(shared), filled.result,
                                     unassigned)
                ELSE LET filled == fillGroup(res, female, roomGroup)
                     IN  afterShared(male, filled.pool, Tail(shared), filled.result,
                                     unassigned)
            : coin \in BOOLEAN }

\* lottery.js:375-401 as a function: every array the rest of performLottery
\* can return from an outcome of the loop over sharedRooms
afterSingles(shared, singles, n) ==
    UNION { UNION {
        Shuffles(filterAssigned(fillSingles(shared.result, remaining, allSingle).result, 1, n))
        : allSingle \in Shuffles(singles \o shared.unassigned) }
        : remaining \in Shuffles(shared.male \o shared.female) }

\* performLottery (lottery.js:289-402) as a function of the snapshot alone:
\* every array it can return over the outcomes of Math.random(); none when
\* line 310 throws
Outcomes(snapshot) ==
    LET data == JsonClone(snapshot)
        rooms == [i \in 1..Len(data) |-> data[i].roomNumber]
        grouped == addRooms(<<>>, rooms, 1)
        entries == objectEntries(grouped.groups)
    IN  IF grouped.threw THEN {}
        ELSE UNION { UNION { UNION { UNION {
                afterSingles(shared, singleRoomsOf(entries), Len(data))
                : shared \in afterShared(male, female, rooms2, <<>>, <<>>) }
                : rooms2 \in Shuffles(sharedRoomsOf(entries)) }
                : female \in Shuffles(employeesOf(data, Female)) }
                : male \in Shuffles(employeesOf(data, Male)) }

\* the locals of a performLottery call that is not running
NoFrame ==
    /\ maleEmployees' = <<>>
    /\ femaleEmployees' = <<>>
    /\ sharedRooms' = <<>>
    /\ singleRooms' = <<>>
    /\ unassignedSharedRooms' = <<>>
    /\ result' = <<>>
    /\ remainingEmployees' = <<>>
    /\ allSingleRooms' = <<>>
    /\ groupIdx' = 1
    /\ finalResult' = <<>>

\* performLottery reading the current snapshot instead of the original one
PartitionAndGroup_FromCurrent ==
    /\ pc = "performLottery"
    /\ LET data == JsonClone(currentData)
           rooms == [i \in 1..Len(data) |-> data[i].roomNumber]
           grouped == addRooms(<<>>, rooms, 1)
           entries == objectEntries(grouped.groups)
       IN  IF grouped.threw
           THEN /\ pc' = "thrown"
                /\ UNCHANGED lotteryVars
           ELSE /\ pc' = "shuffleEmployees"
                /\ maleEmployees' = employeesOf(data, Male)
                /\ femaleEmployees' = employeesOf(data, Female)
                /\ sharedRooms' = sharedRoomsOf(entries)
                /\ singleRooms' = singleRoomsOf(entries)
                /\ UNCHANGED <<unassignedSharedRooms, result, remainingEmployees,
                               allSingleRooms, groupIdx, finalResult>>
    /\ UNCHANGED <<sessionVars, observeVars, parserVars, callerVars, readerVars>>

\* lottery.js:290-327: the copy of the snapshot, the two pools, the room groups.
\* A room label that names an inherited property makes line 310 throw.
PartitionAndGroup ==
    /\ pc = "performLottery"
    /\ LET data == JsonClone(originalData)
           rooms == [i \in 1..Len(data) |-> data[i].roomNumber]
           grouped == addRooms(<<>>, rooms, 1)
           entries == objectEntries(grouped.groups)
       IN  IF grouped.threw
           THEN /\ pc' = "thrown"
                /\ UNCHANGED lotteryVars
           ELSE /\ pc' = "shuffleEmployees"
                /\ maleEmployees' = employeesOf(data, Male)
                /\ femaleEmployees' = employeesOf(data, Female)
                /\ sharedRooms' = sharedRoomsOf(entries)
                /\ singleRooms' = singleRoomsOf(entries)
                /\ UNCHANGED <<unassignedSharedRooms, result, remainingEmployees,
                               allSingleRooms, groupIdx, finalResult>>
    /\ UNCHANGED <<sessionVars, observeVars, parserVars, callerVars, readerVars>>

\* lottery.js:330-334
ShuffleEmployees ==
    /\ pc = "shuffleEmployees"
    /\ maleEmployees' \in Shuffles(maleEmployees)
    /\ femaleEmployees' \in Shuffles(femaleEmployees)
    /\ result' = <<>>
    /\ pc' = "shuffleShared"
    /\ UNCHANGED <<sharedRooms, singleRooms, unassignedSharedRooms, remainingEmployees,
                   allSingleRooms, groupIdx, finalResult>>
    /\ UNCHANGED <<sessionVars, observeVars, parserVars, callerVars, readerVars>>

\* lottery.js:337-340
ShuffleSharedRooms ==
    /\ pc = "shuffleShared"
    /\ sharedRooms' \in Shuffles(sharedRooms)
    /\ unassignedSharedRooms' = <<>>
    /\ groupIdx' = 1
    /\ pc' = "assignShared"
    /\ UNCHANGED <<maleEmployees, femaleEmployees, singleRooms, result, remainingEmployees,
                   allSingleRooms, finalResult>>
    /\ UNCHANGED <<sessionVars, observeVars, parserVars, callerVars, readerVars>>

\* one pass of the loop over sharedRooms (lottery.js:341-372); coin is
\* Math.random() < 0.5
AssignSharedRoom ==
    /\ pc = "assignShared"
    /\ groupIdx <= Len(sharedRooms)
    /\ \E coin \in BOOLEAN :
        LET roomGroup == sharedRooms[groupIdx]
            roomCount == Len(roomGroup)
            selectedPool == selectPool(Len(maleEmployees), Len(femaleEmployees), roomCount, coin)
        IN  IF selectedPool = "none"
            THEN /\ unassignedSharedRooms' = unassignedSharedRooms \o roomGroup
                 /\ UNCHANGED <<maleEmployees, femaleEmployees, result>>
            ELSE IF selectedPool = "male"
            THEN LET filled == fillGroup(result, maleEmployees, roomGroup)
                 IN  /\ result' = filled.result
                     /\ maleEmployees' = filled.pool
                     /\ UNCHANGED <<femaleEmployees, unassignedSharedRooms>>
            ELSE LET filled == fillGroup(result, femaleEmployees, roomGroup)
                 IN  /\ result' = filled.result
                     /\ femaleEmployees' = filled.pool
                     /\ UNCHANGED <<maleEmployees, unassignedSharedRooms>>
    /\ groupIdx' = groupIdx + 1
    /\ UNCHANGED <<pc, sharedRooms, singleRooms, remainingEmployees, allSingleRooms, finalResult>>
    /\ UNCHANGED <<sessionVars, observeVars, parserVars, callerVars, readerVars>>

\* lottery.js:375-376, once the loop over sharedRooms is over
MergeRemaining ==
    /\ pc = "assignShared"
    /\ groupIdx > Len(sharedRooms)
    /\ remainingEmployees' \in Shuffles(maleEmployees \o femaleEmployees)
    /\ pc' = "mergeSingle"
    /\ UNCHANGED <<maleEmployees, femaleEmployees, sharedRooms, singleRooms,
                   unassignedSharedRooms, result, allSingleRooms, groupIdx, finalResult>>
    /\ UNCHANGED <<sessionVars, observeVars, parserVars, callerVars, readerVars>>

\* the single rooms alone, the overflow list forgotten
MergeSingleRooms_NoOverflow ==
    /\ pc = "mergeSingle"
    /\ allSingleRooms' \in Shuffles(singleRooms)
    /\ pc' = "assignSingle"
    /\ UNCHANGED <<maleEmployees, femaleEmployees, sharedRooms, singleRooms,
                   unassignedSharedRooms, result, remainingEmployees, groupIdx, finalResult>>
    /\ UNCHANGED <<sessionVars, observeVars, parserVars, callerVars, readerVars>>

\* lottery.js:379-380
MergeSingleRooms ==
    /\ pc = "mergeSingle"
    /\ allSingleRooms' \in Shuffles(singleRooms \o unassignedSharedRooms)
    /\ pc' = "assignSingle"
    /\ UNCHANGED <<maleEmployees, femaleEmployees, sharedRooms, singleRooms,
                   unassignedSharedRooms, result, remainingEmployees, groupIdx, finalResult>>
    /\ UNCHANGED <<sessionVars, observeVars, parserVars, callerVars, readerVars>>

\* lottery.js:383-393
AssignSingleRooms ==
    /\ pc = "assignSingle"
    /\ LET filled == fillSingles(result, remainingEmployees, allSingleRooms)
       IN  /\ result' = filled.result
           /\ remainingEmployees' = filled.pool
    /\ pc' = "finish"
    /\ UNCHANGED <<maleEmployees, femaleEmployees, sharedRooms, singleRooms,
                   unassignedSharedRooms, allSingleRooms, groupIdx, finalResult>>
    /\ UNCHANGED <<sessionVars, observeVars, parserVars, callerVars, readerVars>>

\* lottery.js:396-401: the filter, the last shuffle and the return, which ends
\* the life of the other locals
FinishLottery ==
    /\ pc = "finish"
    /\ finalResult' \in Shuffles(filterAssigned(result, 1, Len(originalData)))
    /\ maleEmployees' = <<>>
    /\ femaleEmployees' = <<>>
    /\ sharedRooms' = <<>>
    /\ singleRooms' = <<>>
    /\ unassignedSharedRooms' = <<>>
    /\ result' = <<>>
    /\ remainingEmployees' = <<>>
    /\ allSingleRooms' = <<>>
    /\ groupIdx' = 1
    /\ pc' = "returned"
    /\ UNCHANGED <<sessionVars, observeVars, parserVars, callerVars, readerVars>>

performLottery ==
    \/ PartitionAndGroup
    \/ ShuffleEmployees
    \/ ShuffleSharedRooms
    \/ AssignSharedRoom
    \/ MergeRemaining
    \/ MergeSingleRooms
    \/ AssignSingleRooms
    \/ FinishLottery

----------------------------------------------------------------------------
\* The session: init, startRolling, the timer callback, stopRolling
\* (lottery.js:252-256, 419-465).  JavaScript runs a handler to completion:
\* another handler or a timer callback starts only when none runs (pc = "idle").

\* what a handler gave back: nothing yet or undefined, a value, or an exception
NoValue == [kind |-> "none", value |-> <<>>]
Returned(value) == [kind |-> "value", value |-> value]
Thrown == [kind |-> "throw", value |-> <<>>]

\* init keeping the caller's array instead of a copy of it
init_ByReference(data) ==
    /\ pc = "idle"
    /\ originalData' = data
    /\ currentData' = data
    /\ isRolling' = FALSE
    /\ call' = "init"
    /\ updates' = <<>>
    /\ ret' = NoValue
    /\ passedData' = data
    /\ originalIsPassed' = TRUE
    /\ UNCHANGED <<rollInterval, timers, timersCreated, pc, lotteryVars, parserVars,
                   readerVars>>

\* lottery.js:252-256: both snapshots are JSON copies, which share no array
\* and no row object with the argument
init(data) ==
    /\ pc = "idle"
    /\ originalData' = JsonClone(data)
    /\ currentData' = JsonClone(data)
    /\ isRolling' = FALSE
    /\ call' = "init"
    /\ updates' = <<>>
    /\ ret' = NoValue
    /\ passedData' = data
    /\ originalIsPassed' = FALSE
    /\ UNCHANGED <<rollInterval, timers, timersCreated, pc, lotteryVars, parserVars,
                   readerVars>>

\* lottery.js:419-441: setInterval hands out a fresh id, and the callback
\* closes over the array originalData names at this moment
startRolling ==
    /\ pc = "idle"
    /\ IF isRolling
       THEN UNCHANGED sessionVars
       ELSE /\ timersCreated < MaxTimers
            /\ isRolling' = TRUE
            /\ timersCreated' = timersCreated + 1
            /\ rollInterval' = timersCreated + 1
            /\ timers' = [id \in (DOMAIN timers) \cup {timersCreated + 1} |->
                             IF id = timersCreated + 1 THEN originalData ELSE timers[id]]
            /\ UNCHANGED <<originalData, currentData>>
    /\ call' = "startRolling"
    /\ updates' = <<>>
    /\ ret' = NoValue
    /\ UNCHANGED <<pc, lotteryVars, parserVars, callerVars, readerVars>>

\* the rows one callback run can build (lottery.js:428-437)
RandomDisplays(data) ==
    [1..Len(data) ->
        { [employeeId |-> data[randomEmpIndex].employeeId,
           gender |-> data[randomEmpIndex].gender,
           roomNumber |-> data[randomRoomIndex].roomNumber] :
          randomEmpIndex \in 1..Len(data), randomRoomIndex \in 1..Len(data) }]

\* one run of the callback of a live timer (lottery.js:426-440)
Tick(id) ==
    /\ pc = "idle"
    /\ id \in DOMAIN timers
    /\ \E randomDisplay \in RandomDisplays(timers[id]) :
        updates' = <<[data |-> randomDisplay, isRolling |-> TRUE]>>
    /\ call' = "tick"
    /\ ret' = NoValue
    /\ UNCHANGED <<sessionVars, pc, lotteryVars, parserVars, callerVars, readerVars>>

\* lottery.js:449, when the session is not rolling
stopRollingNotRolling_Original ==
    /\ pc = "idle"
    /\ ~isRolling
    /\ call' = "stopRolling"
    /\ updates' = <<>>
    /\ ret' = Returned(originalData)
    /\ UNCHANGED <<sessionVars, pc, lotteryVars, parserVars, callerVars, readerVars>>

stopRollingNotRolling ==
    /\ pc = "idle"
    /\ ~isRolling
    /\ call' = "stopRolling"
    /\ updates' = <<>>
    /\ ret' = Returned(currentData)
    /\ UNCHANGED <<sessionVars, pc, lotteryVars, parserVars, callerVars, readerVars>>

\* lottery.js:449-459, when the session is rolling: up to the call of
\* performLottery
stopRollingBegin ==
    /\ pc = "idle"
    /\ isRolling
    /\ isRolling' = FALSE
    /\ IF rollInterval # NoTimer
       THEN /\ timers' = [id \in (DOMAIN timers) \ {rollInterval} |-> timers[id]]
            /\ rollInterval' = NoTimer
       ELSE UNCHANGED <<timers, rollInterval>>
    /\ pc' = "performLottery"
    /\ call' = "stopRolling"
    /\ updates' = <<>>
    /\ ret' = NoValue
    /\ UNCHANGED <<originalData, currentData, timersCreated, lotteryVars, parserVars,
                   callerVars, readerVars>>

\* lottery.js:459-464, once performLottery has returned
stopRollingCommit ==
    /\ pc = "returned"
    /\ currentData' = finalResult
    /\ updates' = Append(updates, [data |-> finalResult, isRolling |-> FALSE])
    /\ ret' = Returned(finalResult)
    /\ pc' = "idle"
    /\ NoFrame
    /\ UNCHANGED <<originalData, isRolling, rollInterval, timers, timersCreated, call,
                   parserVars, callerVars, readerVars>>

\* lottery.js:459, when performLottery threw: nothing catches the exception,
\* which leaves stopRolling at once
stopRollingThrow ==
    /\ pc = "thrown"
    /\ ret' = Thrown
    /\ pc' = "idle"
    /\ NoFrame
    /\ UNCHANGED <<sessionVars, call, updates, parserVars, callerVars, readerVars>>

\* getCurrentData handing out the original snapshot
getCurrentData_Original ==
    /\ pc = "idle"
    /\ call' = "getCurrentData"
    /\ updates' = <<>>
    /\ ret' = Returned(originalData)
    /\ UNCHANGED <<sessionVars, pc, lotteryVars, parserVars, callerVars, readerVars>>

\* lottery.js:471-473
getCurrentData ==
    /\ pc = "idle"
    /\ call' = "getCurrentData"
    /\ updates' = <<>>
    /\ ret' = Returned(currentData)
    /\ UNCHANGED <<sessionVars, pc, lotteryVars, parserVars, callerVars, readerVars>>

\* app.js:93-96: the caller still holds the array it handed to init; a write
\* to a row of that array reaches originalData only when originalData shares
\* the array's objects
callerWrites ==
    /\ pc = "idle"
    /\ passedData # <<>>
    /\ passedData[1].gender # Other
    /\ passedData' = [passedData EXCEPT ![1].gender = Other]
    /\ originalData' = IF originalIsPassed THEN passedData' ELSE originalData
    /\ call' = "callerWrites"
    /\ updates' = <<>>
    /\ ret' = NoValue
    /\ UNCHANGED <<currentData, isRolling, rollInterval, timers, timersCreated, pc,
                   lotteryVars, parserVars, originalIsPassed, readerVars>>

stopRolling ==
    \/ stopRollingNotRolling
    \/ stopRollingBegin
    \/ stopRollingCommit
    \/ stopRollingThrow

----------------------------------------------------------------------------
\* The exports (excel.js:101-103, 144-146) and the page (app.js).

\* a.roomNumber.localeCompare(b.roomNumber, 'zh-CN') < 0, as the order of the
\* code points; the labels the page's datasets hold differ in their last
\* capital letter only, where the two orders agree
roomBefore(a, b) ==
    \E i \in 1..Len(b) :
        /\ \A j \in 1..(i - 1) : j <= Len(a) /\ a[j] = b[j]
        /\ (i > Len(a) \/ (i <= Len(a) /\ a[i] < b[i]))

\* Array.prototype.sort is stable: a row goes behind the rows it is not before
RECURSIVE insertRow(_, _)
insertRow(sorted, row) ==
    IF Len(sorted) = 0 THEN <<row>>
    ELSE IF roomBefore(row.roomNumber, sorted[Len(sorted)].roomNumber)
    THEN Append(insertRow(SubSeq(sorted, 1, Len(sorted) - 1), row), sorted[Len(sorted)])
    ELSE Append(sorted, row)

RECURSIVE sortRows(_)
sortRows(data) ==
    IF Len(data) = 0 THEN <<>>
    ELSE insertRow(sortRows(SubSeq(data, 1, Len(data) - 1)), data[Len(data)])

\* data.sort(...), which sorts the argument itself
sortedCopy_InPlace(data) == [sortedData |-> sortRows(data), data |-> sortRows(data)]

\* const sortedData = [...data].sort(...) (excel.js:103, 146): the array made
\* and the argument after the call
sortedCopy(data) == [sortedData |-> sortRows(data), data |-> data]

\* the datasets the files of the page hold
AppInputs ==
    { MakeData(<<Male, Male>>, <<LabelSouthB, LabelSouthA>>),
      MakeData(<<Male>>, <<LabelConstructor>>) }

\* app.js:136-153
renderTable(data, rolling) == tableBody' = [data |-> data, isRolling |-> rolling]

\* showLotterySection with the export buttons left as they are
showLotterySection_KeepButtons(data) ==
    /\ lotterySectionHidden' = FALSE
    /\ isLotteryStarted' = FALSE
    /\ isLotteryComplete' = FALSE
    /\ exportBtnsHidden' = exportBtnsHidden
    /\ renderTable(data, FALSE)

\* app.js:112-128
showLotterySection(data) ==
    /\ lotterySectionHidden' = FALSE
    /\ isLotteryStarted' = FALSE
    /\ isLotteryComplete' = FALSE
    /\ exportBtnsHidden' = TRUE
    /\ renderTable(data, FALSE)

\* fileInput change or a drop on the zone (app.js:36-62): handleFile runs up to
\* the await of readFile (app.js:69-85); the upload section is the one shown
selectFile(data) ==
    /\ pc = "idle"
    /\ lotterySectionHidden
    /\ filesSelected < MaxFiles
    /\ filesSelected' = filesSelected + 1
    /\ pendingFiles' = [f \in (DOMAIN pendingFiles) \cup {filesSelected + 1} |->
                            IF f = filesSelected + 1 THEN data ELSE pendingFiles[f]]
    /\ UNCHANGED <<sessionVars, observeVars, pc, lotteryVars, parserVars, callerVars,
                   readerVars, isLotteryStarted, isLotteryComplete, lotterySectionHidden,
                   exportBtnsHidden, homeBtnHidden, tableBody, sortedData, shuffleVars,
                   first>>

\* readFile resolved with entries: the rest of handleFile (app.js:85-96)
handleFile(f) ==
    /\ f \in DOMAIN pendingFiles
    /\ init(pendingFiles[f])
    /\ showLotterySection(pendingFiles[f])
    /\ pendingFiles' = [g \in (DOMAIN pendingFiles) \ {f} |-> pendingFiles[g]]
    /\ UNCHANGED <<homeBtnHidden, filesSelected, sortedData, shuffleVars, first>>

\* app.js:183-193
startLottery ==
    /\ isLotteryStarted' = TRUE
    /\ isLotteryComplete' = FALSE
    /\ startRolling

\* lotteryBtn click once a lottery is complete (app.js:160-169)
lotteryBtnReroll ==
    /\ ~lotterySectionHidden
    /\ isLotteryComplete
    /\ exportBtnsHidden' = TRUE
    /\ homeBtnHidden' = TRUE
    /\ startLottery
    /\ UNCHANGED <<lotterySectionHidden, tableBody, pendingFiles, filesSelected, sortedData,
                   shuffleVars, first>>

\* lotteryBtn click before a lottery is started (app.js:171-173)
lotteryBtnStart ==
    /\ ~lotterySectionHidden
    /\ ~isLotteryComplete
    /\ ~isLotteryStarted
    /\ startLottery
    /\ UNCHANGED <<lotterySectionHidden, exportBtnsHidden, homeBtnHidden, tableBody,
                   pendingFiles, filesSelected, sortedData, shuffleVars, first>>

\* lotteryBtn click during a lottery (app.js:174-177): stopLottery
\* (app.js:198-216) up to the call of performLottery, or to its end when
\* stopRolling returns at once
stopLottery ==
    /\ ~lotterySectionHidden
    /\ ~isLotteryComplete
    /\ isLotteryStarted
    /\ isLotteryComplete' = TRUE
    /\ IF isRolling
       THEN /\ stopRollingBegin
            /\ UNCHANGED <<exportBtnsHidden, homeBtnHidden>>
       ELSE /\ stopRollingNotRolling
            /\ exportBtnsHidden' = FALSE
            /\ homeBtnHidden' = FALSE
    /\ UNCHANGED <<isLotteryStarted, lotterySectionHidden, tableBody, pendingFiles,
                   filesSelected, sortedData, shuffleVars, first>>

\* the rest of stopLottery once performLottery has returned: the callback
\* renders the result, then the buttons are shown (app.js:204-212)
stopLotteryEnd ==
    /\ stopRollingCommit
    /\ renderTable(finalResult, FALSE)
    /\ exportBtnsHidden' = FALSE
    /\ homeBtnHidden' = FALSE
    /\ UNCHANGED <<isLotteryStarted, isLotteryComplete, lotterySectionHidden, pendingFiles,
                   filesSelected, sortedData, shuffleVars, first>>

\* performLottery threw: the exception leaves stopLottery and the click
\* handler at line 204, before the buttons are shown
stopLotteryThrow == stopRollingThrow /\ UNCHANGED outerVars

\* a timer fires: its callback renders the preview (app.js:190-192, 204-206)
timerFires(id) ==
    /\ Tick(id)
    /\ renderTable(updates'[1].data, updates'[1].isRolling)
    /\ UNCHANGED <<isLotteryStarted, isLotteryComplete, lotterySectionHidden,
                   exportBtnsHidden, homeBtnHidden, pendingFiles, filesSelected, sortedData,
                   shuffleVars, first>>

\* the two export handlers (app.js:258-268): data is the array that
\* getCurrentData returns, which is currentData itself (lottery.js:471-473)
exportClick(name) ==
    /\ pc = "idle"
    /\ ~exportBtnsHidden
    /\ sortedData' = sortedCopy(currentData).sortedData
    /\ currentData' = sortedCopy(currentData).data
    /\ call' = name
    /\ updates' = <<>>
    /\ ret' = NoValue
    /\ UNCHANGED <<originalData, isRolling, rollInterval, timers, timersCreated, pc,
                   lotteryVars, parserVars, callerVars, readerVars, isLotteryStarted,
                   isLotteryComplete, lotterySectionHidden, exportBtnsHidden, homeBtnHidden,
                   tableBody, pendingFiles, filesSelected, shuffleVars, first>>

\* app.js:258-262 with excel.js:101-103
exportExcelBtnClick == exportClick("exportToExcel")

\* app.js:264-268 with excel.js:144-146
exportPdfBtnClick == exportClick("exportToPDF")

\* app.js:274-298
homeBtnClick ==
    /\ pc = "idle"
    /\ ~homeBtnHidden
    /\ isLotteryStarted' = FALSE
    /\ isLotteryComplete' = FALSE
    /\ lotterySectionHidden' = TRUE
    /\ exportBtnsHidden' = TRUE
    /\ homeBtnHidden' = TRUE
    /\ tableBody' = [data |-> <<>>, isRolling |-> FALSE]
    /\ UNCHANGED <<sessionVars, observeVars, pc, lotteryVars, parserVars, callerVars,
                   readerVars, pendingFiles, filesSelected, sortedData, shuffleVars, first>>

----------------------------------------------------------------------------
\* The earlier definition of performLottery (lottery.js:53-160), run in the
\* record `first` side by side with the later one on the same outcomes of
\* Math.random(): a shuffle of an array as long as the later definition's gets
\* the same draws, the coin of a group is the same when both definitions toss.

\* the pool with the coin ignored: male whenever the men suffice
firstSelectPool_MaleFirst(maleLength, femaleLength, roomCount, coin) ==
    IF maleLength >= roomCount THEN "male"
    ELSE IF femaleLength >= roomCount THEN "female"
    ELSE IF maleLength >= femaleLength THEN "male" ELSE "female"

\* lottery.js:108-119
firstSelectPool(maleLength, femaleLength, roomCount, coin) ==
    IF maleLength >= roomCount /\ femaleLength >= roomCount
    THEN (IF coin THEN "male" ELSE "female")
    ELSE IF maleLength >= roomCount THEN "male"
    ELSE IF femaleLength >= roomCount THEN "female"
    ELSE IF maleLength >= femaleLength THEN "male" ELSE "female"

\* for (const roomInfo of roomGroup) { if (selectedPool.length > 0) ... }
\* (lottery.js:122-131)
RECURSIVE firstFillGroup(_, _, _)
firstFillGroup(res, pool, roomGroup) ==
    IF Len(roomGroup) = 0 THEN [result |-> res, pool |-> pool]
    ELSE IF Len(pool) > 0
    THEN firstFillGroup(put(res, Head(roomGroup).originalIndex,
                            rowOf(Head(pool), Head(roomGroup).fullRoom)),
                        Tail(pool), Tail(roomGroup))
    ELSE firstFillGroup(res, pool, Tail(roomGroup))

\* the draws d turn `array` into `arrayAfter` when the earlier definition's
\* array has the length of `array`
sameDraws(array, arrayAfter, firstArray, d) ==
    Len(firstArray) = Len(array) => shuffleArray(array, d) = arrayAfter

\* lottery.js:54-91 beside lines 290-327
BothPartitionAndGroup ==
    /\ PartitionAndGroup
    /\ LET data == JsonClone(originalData)
           rooms == [i \in 1..Len(data) |-> data[i].roomNumber]
           grouped == addRooms(<<>>, rooms, 1)
           entries == objectEntries(grouped.groups)
       IN  first' = IF grouped.threw THEN first
                    ELSE [first EXCEPT !.maleEmployees = employeesOf(data, Male),
                                       !.femaleEmployees = employeesOf(data, Female),
                                       !.sharedRooms = sharedRoomsOf(entries),
                                       !.singleRooms = singleRoomsOf(entries)]
    /\ UNCHANGED <<appVars, shuffleVars>>

\* lottery.js:94-98 beside lines 330-334
BothShuffleEmployees ==
    /\ ShuffleEmployees
    /\ \E dm \in Draws(Len(first.maleEmployees)), df \in Draws(Len(first.femaleEmployees)) :
        /\ sameDraws(maleEmployees, maleEmployees', first.maleEmployees, dm)
        /\ sameDraws(femaleEmployees, femaleEmployees', first.femaleEmployees, df)
        /\ first' = [first EXCEPT !.maleEmployees = shuffleArray(@, dm),
                                  !.femaleEmployees = shuffleArray(@, df),
                                  !.result = <<>>]
    /\ UNCHANGED <<appVars, shuffleVars>>

\* lottery.js:101 beside line 337
BothShuffleSharedRooms ==
    /\ ShuffleSharedRooms
    /\ \E d \in Draws(Len(first.sharedRooms)) :
        /\ sameDraws(sharedRooms, sharedRooms', first.sharedRooms, d)
        /\ first' = [first EXCEPT !.sharedRooms = shuffleArray(@, d)]
    /\ UNCHANGED <<appVars, shuffleVars>>

\* the later definition's step took the pool that `coin` selects
coinTaken(coin) ==
    LET selectedPool == selectPool(Len(maleEmployees), Len(femaleEmployees),
                                   Len(sharedRooms[groupIdx]), coin)
    IN  /\ selectedPool = "male" => maleEmployees' # maleEmployees
        /\ selectedPool = "female" => femaleEmployees' # femaleEmployees
        /\ selectedPool = "none" => unassignedSharedRooms' # unassignedSharedRooms

\* one round of the loop over sharedRooms: lottery.js:104-132 beside lines
\* 341-372
BothAssignSharedRoom ==
    /\ AssignSharedRoom
    /\ \E coin \in BOOLEAN :
        /\ coinTaken(coin)
        /\ LET roomGroup == first.sharedRooms[groupIdx]
               selectedPool == firstSelectPool(Len(first.maleEmployees),
                                               Len(first.femaleEmployees),
                                               Len(roomGroup), coin)
           IN  IF selectedPool = "male"
               THEN LET filled == firstFillGroup(first.result, first.maleEmployees, roomGroup)
                    IN  first' = [first EXCEPT !.result = filled.result,
                                               !.maleEmployees = filled.pool]
               ELSE LET filled == firstFillGroup(first.result, first.femaleEmployees, roomGroup)
                    IN  first' = [first EXCEPT !.result = filled.result,
                                               !.femaleEmployees = filled.pool]
    /\ UNCHANGED <<appVars, shuffleVars>>

\* lottery.js:135-136 beside lines 375-376
BothMergeRemaining ==
    /\ MergeRemaining
    /\ LET firstRemaining == first.maleEmployees \o first.femaleEmployees
       IN  \E d \in Draws(Len(firstRemaining)) :
            /\ sameDraws(maleEmployees \o femaleEmployees, remainingEmployees',
                         firstRemaining, d)
            /\ first' = [first EXCEPT !.remainingEmployees = shuffleArray(firstRemaining, d)]
    /\ UNCHANGED <<appVars, shuffleVars>>

\* lottery.js:139, which shuffles singleRooms itself, beside lines 379-380
BothMergeSingleRooms ==
    /\ MergeSingleRooms
    /\ \E d \in Draws(Len(first.singleRooms)) :
        /\ sameDraws(singleRooms \o unassignedSharedRooms, allSingleRooms',
                     first.singleRooms, d)
        /\ first' = [first EXCEPT !.singleRooms = shuffleArray(@, d)]
    /\ UNCHANGED <<appVars, shuffleVars>>

\* lottery.js:142-151, the same loop as lines 383-393, over singleRooms
BothAssignSingleRooms ==
    /\ AssignSingleRooms
    /\ LET filled == fillSingles(first.result, first.remainingEmployees, first.singleRooms)
       IN  first' = [first EXCEPT !.result = filled.result,
                                  !.remainingEmployees = filled.pool]
    /\ UNCHANGED <<appVars, shuffleVars>>

\* lottery.js:154-159 beside lines 396-401; the earlier definition's array
\* stays in first.finalResult
BothFinishLottery ==
    /\ FinishLottery
    /\ LET firstFiltered == filterAssigned(first.result, 1, Len(originalData))
       IN  \E d \in Draws(Len(firstFiltered)) :
            /\ sameDraws(filterAssigned(result, 1, Len(originalData)), finalResult',
                         firstFiltered, d)
            /\ first' = [first EXCEPT !.finalResult = shuffleArray(firstFiltered, d),
                                      !.maleEmployees = <<>>,
                                      !.femaleEmployees = <<>>,
                                      !.sharedRooms = <<>>,
                                      !.singleRooms = <<>>,
                                      !.result = <<>>,
                                      !.remainingEmployees = <<>>]
    /\ UNCHANGED <<appVars, shuffleVars>>

----------------------------------------------------------------------------
\* ExcelModule.readFile (excel.js:11-94): the rows of the first sheet, as
\* sheet_to_json(worksheet, {header: 1}) gives them, to the entries handed to
\* the core.  A cell is absent (null or undefined) or holds a text, a sequence
\* of code points; a number cell is held as the text String() makes of it.

NoCell == [present |-> FALSE, text |-> <<>>]
Cell(text) == [present |-> TRUE, text |-> text]

\* the white space String.prototype.trim removes
WhiteSpace == {9, 10, 11, 12, 13, 32, 160, 5760, 8232, 8233, 8239, 8287, 12288, 65279}
                  \cup (8192..8202)

RECURSIVE trimStart(_)
trimStart(text) ==
    IF Len(text) > 0 /\ Head(text) \in WhiteSpace THEN trimStart(Tail(text)) ELSE text

RECURSIVE trimEnd(_)
trimEnd(text) ==
    IF Len(text) > 0 /\ text[Len(text)] \in WhiteSpace
    THEN trimEnd(SubSeq(text, 1, Len(text) - 1))
    ELSE text

trim(text) == trimEnd(trimStart(text))

\* row[k] != null ? String(row[k]).trim() : '' (excel.js:38-40)
cellText(cell) == IF cell.present THEN trim(cell.text) ELSE <<>>

\* '男' and '女' (excel.js:46)
GenderMale == <<30007>>
GenderFemale == <<22899>>

\* 'm', 'M', 'male', 'Male', 'MALE', '男性' (excel.js:49)
MaleAliases ==
    { <<109>>, <<77>>, <<109, 97, 108, 101>>, <<77, 97, 108, 101>>, <<77, 65, 76, 69>>,
      <<30007, 24615>> }

\* 'f', 'F', 'female', 'Female', 'FEMALE', '女性' (excel.js:51)
FemaleAliases ==
    { <<102>>, <<70>>, <<102, 101, 109, 97, 108, 101>>, <<70, 101, 109, 97, 108, 101>>,
      <<70, 69, 77, 65, 76, 69>>, <<22899, 24615>> }

\* excel.js:46-54: only the listed aliases are rewritten; any other text
\* stays as it is
checkGender(gender) ==
    IF gender # GenderMale /\ gender # GenderFemale
    THEN IF gender \in MaleAliases THEN GenderMale
         ELSE IF gender \in FemaleAliases THEN GenderFemale
         ELSE gender
    ELSE gender

\* the loop of excel.js:33-68 from row i on; the Set employeeIds holds the
\* employeeId of every entry pushed so far
RECURSIVE readRows(_, _, _)
readRows(rows, i, entries) ==
    IF i > Len(rows) THEN entries
    ELSE LET row == rows[i]
         IN  IF Len(row) < 3 THEN readRows(rows, i + 1, entries)
             ELSE LET employeeId == cellText(row[1])
                      gender == cellText(row[2])
                      roomNumber == cellText(row[3])
                  IN  IF employeeId = <<>> \/ gender = <<>> \/ roomNumber = <<>>
                      THEN readRows(rows, i + 1, entries)
                      ELSE IF \E k \in 1..Len(entries) : entries[k].employeeId = employeeId
                      THEN readRows(rows, i + 1, entries)
                      ELSE readRows(rows, i + 1,
                                    Append(entries, [employeeId |-> employeeId,
                                                     gender |-> checkGender(gender),
                                                     roomNumber |-> roomNumber]))

\* the cells of the sheets read: 'E1', ' E1 ', 'E2'; '男', ' 女', 'M', 'X';
\* ' R2 '; and the absent cell in each column
IdCells == {NoCell, Cell(<<69, 49>>), Cell(<<32, 69, 49, 32>>), Cell(<<69, 50>>)}
GenderCells == {NoCell, Cell(GenderMale), Cell(<<32>> \o GenderFemale), Cell(<<77>>),
                Cell(<<88>>)}
RoomCells == {NoCell, Cell(<<32, 82, 50, 32>>)}

\* the header row, the first row of the sheet, which the loop never reads
HeaderRow == <<Cell(<<69, 48>>), Cell(GenderMale), Cell(<<82, 48>>)>>

\* the rows below the header: full rows, an empty row, a row of two cells
SheetRows ==
    {<<id, gender, room>> : id \in IdCells, gender \in GenderCells, room \in RoomCells}
        \cup {<<>>, <<Cell(<<69, 49>>), Cell(GenderMale)>>}

Sheets == {<<HeaderRow>> \o rows : rows \in UNION {[1..n -> SheetRows] : n \in 0..MaxRows}}

\* reader.onload (excel.js:15-70) on a sheet that parses
readFile ==
    /\ pc = "readFile"
    /\ readData' = readRows(jsonData, 2, <<>>)
    /\ pc' = "resolved"
    /\ UNCHANGED <<sessionVars, observeVars, lotteryVars, parserVars, callerVars, jsonData>>

----------------------------------------------------------------------------
\* The specifications.

NoFrameInit ==
    /\ maleEmployees = <<>>
    /\ femaleEmployees = <<>>
    /\ sharedRooms = <<>>
    /\ singleRooms = <<>>
    /\ unassignedSharedRooms = <<>>
    /\ result = <<>>
    /\ remainingEmployees = <<>>
    /\ allSingleRooms = <<>>
    /\ groupIdx = 1
    /\ finalResult = <<>>

NoParse ==
    /\ parseInput = <<>>
    /\ parseOutput = [baseRoom |-> <<>>, bedroom |-> null]

NoRead ==
    /\ jsonData = <<>>
    /\ readData = <<>>

\* the page as loaded: the upload section shows, the table is empty
NoPage ==
    /\ isLotteryStarted = FALSE
    /\ isLotteryComplete = FALSE
    /\ lotterySectionHidden = TRUE
    /\ exportBtnsHidden = TRUE
    /\ homeBtnHidden = TRUE
    /\ tableBody = [data |-> <<>>, isRolling |-> FALSE]
    /\ pendingFiles = <<>>
    /\ filesSelected = 0
    /\ sortedData = <<>>

NoShuffle ==
    /\ shuffleInput = <<>>
    /\ shuffleOutput = <<>>

NoFirstFrame ==
    [maleEmployees |-> <<>>, femaleEmployees |-> <<>>, sharedRooms |-> <<>>,
     singleRooms |-> <<>>, result |-> <<>>, remainingEmployees |-> <<>>,
     finalResult |-> <<>>]

NoOuter ==
    /\ NoPage
    /\ NoShuffle
    /\ first = NoFirstFrame

\* the steps of performLottery with nothing else going on
performLotteryAlone ==
    \/ PartitionAndGroup /\ UNCHANGED outerVars
    \/ ShuffleEmployees /\ UNCHANGED outerVars
    \/ ShuffleSharedRooms /\ UNCHANGED outerVars
    \/ AssignSharedRoom /\ UNCHANGED outerVars
    \/ MergeRemaining /\ UNCHANGED outerVars
    \/ MergeSingleRooms /\ UNCHANGED outerVars
    \/ AssignSingleRooms /\ UNCHANGED outerVars
    \/ FinishLottery /\ UNCHANGED outerVars

\* the module as loaded (lottery.js:242-247)
Init ==
    /\ originalData = <<>>
    /\ currentData = <<>>
    /\ isRolling = FALSE
    /\ rollInterval = NoTimer
    /\ timers = <<>>
    /\ timersCreated = 0
    /\ call = "none"
    /\ updates = <<>>
    /\ ret = NoValue
    /\ pc = "idle"
    /\ NoFrameInit
    /\ NoParse
    /\ passedData = <<>>
    /\ originalIsPassed = FALSE
    /\ NoRead
    /\ NoOuter

Next ==
    \/ (\E data \in SessionInputs : init(data)) /\ UNCHANGED outerVars
    \/ startRolling /\ UNCHANGED outerVars
    \/ (\E id \in DOMAIN timers : Tick(id)) /\ UNCHANGED outerVars
    \/ stopRollingNotRolling /\ UNCHANGED outerVars
    \/ stopRollingBegin /\ UNCHANGED outerVars
    \/ stopRollingCommit /\ UNCHANGED outerVars
    \/ stopRollingThrow /\ UNCHANGED outerVars
    \/ performLotteryAlone
    \/ getCurrentData /\ UNCHANGED outerVars
    \/ callerWrites /\ UNCHANGED outerVars

\* the session under any sequence of calls and timer callbacks
Spec == Init /\ [][Next]_vars

\* performLottery alone, on every dataset: the session as it is when
\* stopRolling calls it (lottery.js:459) after init(data) and startRolling
LotteryInit ==
    /\ originalData \in Inputs
    /\ currentData = originalData
    /\ isRolling = FALSE
    /\ rollInterval = NoTimer
    /\ timers = <<>>
    /\ timersCreated = 1
    /\ call = "stopRolling"
    /\ updates = <<>>
    /\ ret = NoValue
    /\ pc = "performLottery"
    /\ NoFrameInit
    /\ NoParse
    /\ passedData = originalData
    /\ originalIsPassed = FALSE
    /\ NoRead
    /\ NoOuter

LotterySpec == LotteryInit /\ [][performLotteryAlone]_vars

\* parseRoomNumber alone, on the labels of the datasets and on every string of
\* at most MaxLabelLen characters over '-', 'A', 'b' and '1'
ParseInputs ==
    {LabelSouthA, LabelSouthB, LabelSouthC, LabelSouth, LabelNextA, LabelNextB,
     LabelR1A, LabelR1B, LabelR2, LabelR3, Label20, Label3, LabelConstructor}
        \cup UNION { [1..n -> {45, 65, 98, 49}] : n \in 0..MaxLabelLen }

ParserInit ==
    /\ originalData = <<>>
    /\ currentData = <<>>
    /\ isRolling = FALSE
    /\ rollInterval = NoTimer
    /\ timers = <<>>
    /\ timersCreated = 0
    /\ call = "none"
    /\ updates = <<>>
    /\ ret = NoValue
    /\ pc = "parse"
    /\ NoFrameInit
    /\ parseInput \in ParseInputs
    /\ parseOutput = [baseRoom |-> <<>>, bedroom |-> null]
    /\ passedData = <<>>
    /\ originalIsPassed = FALSE
    /\ NoRead
    /\ NoOuter

ParseCall ==
    /\ pc = "parse"
    /\ parseOutput' = parseRoomNumber(parseInput)
    /\ pc' = "parsed"
    /\ UNCHANGED <<sessionVars, observeVars, lotteryVars, parseInput,
                 callerVars, readerVars>>

ParserNext == ParseCall /\ UNCHANGED outerVars

ParserSpec == ParserInit /\ [][ParserNext]_vars

\* readFile alone, on every sheet of at most MaxRows rows below the header
ReaderInit ==
    /\ originalData = <<>>
    /\ currentData = <<>>
    /\ isRolling = FALSE
    /\ rollInterval = NoTimer
    /\ timers = <<>>
    /\ timersCreated = 0
    /\ call = "none"
    /\ updates = <<>>
    /\ ret = NoValue
    /\ pc = "readFile"
    /\ NoFrameInit
    /\ NoParse
    /\ passedData = <<>>
    /\ originalIsPassed = FALSE
    /\ jsonData \in Sheets
    /\ readData = <<>>
    /\ NoOuter

ReaderNext == readFile /\ UNCHANGED outerVars

\* the page under any sequence of file selections, readFile completions,
\* clicks and timer callbacks
AppNext ==
    \/ \E data \in AppInputs : selectFile(data)
    \/ \E f \in DOMAIN pendingFiles : handleFile(f)
    \/ lotteryBtnReroll
    \/ lotteryBtnStart
    \/ stopLottery
    \/ stopLotteryEnd
    \/ stopLotteryThrow
    \/ performLotteryAlone
    \/ \E id \in DOMAIN timers : timerFires(id)
    \/ exportExcelBtnClick
    \/ exportPdfBtnClick
    \/ homeBtnClick

AppSpec == Init /\ [][AppNext]_vars

\* the two definitions of performLottery side by side, on every dataset
BothPerformLottery ==
    \/ BothPartitionAndGroup
    \/ BothShuffleEmployees
    \/ BothShuffleSharedRooms
    \/ BothAssignSharedRoom
    \/ BothMergeRemaining
    \/ BothMergeSingleRooms
    \/ BothAssignSingleRooms
    \/ BothFinishLottery

PairSpec == LotteryInit /\ [][BothPerformLottery]_vars

\* shuffleArray alone, on every array of at most MaxShuffleLen elements out
\* of three values, so that arrays hold an element more than once
ShuffleInputs == UNION {[1..n -> 1..3] : n \in 0..MaxShuffleLen}

ShuffleInit ==
    /\ originalData = <<>>
    /\ currentData = <<>>
    /\ isRolling = FALSE
    /\ rollInterval = NoTimer
    /\ timers = <<>>
    /\ timersCreated = 0
    /\ call = "none"
    /\ updates = <<>>
    /\ ret = NoValue
    /\ pc = "shuffleArray"
    /\ NoFrameInit
    /\ NoParse
    /\ passedData = <<>>
    /\ originalIsPassed = FALSE
    /\ NoRead
    /\ NoPage
    /\ first = NoFirstFrame
    /\ shuffleInput \in ShuffleInputs
    /\ shuffleOutput = <<>>

ShuffleSpec == ShuffleInit /\ [][ShuffleCall]_vars

ReaderSpec == ReaderInit /\ [][ReaderNext]_vars

----------------------------------------------------------------------------
\* The claims.  Those about the rows performLottery returns are stated on
\* finalResult once the call has returned (pc = "returned").

ResultRows == 1..Len(finalResult)

\* C1: in the result performLottery returns, any two rows whose room labels
\* parse to the same baseRoom carry the same gender, also when the room's
\* group went to the overflow list.
C1_OneGenderPerRoom ==
    pc = "returned" =>
        \A i, j \in ResultRows :
            parseRoomNumber(finalResult[i].roomNumber).baseRoom
                = parseRoomNumber(finalResult[j].roomNumber).baseRoom
            => finalResult[i].gender = finalResult[j].gender

\* C2: every employeeId appears at most once among the rows performLottery
\* returns.
C2_EmployeeAtMostOnce ==
    pc = "returned" =>
        \A i, j \in ResultRows :
            finalResult[i].employeeId = finalResult[j].employeeId => i = j

\* a returned result that places four people, two of them from a pool that
\* filled a shared room
C2_Witness ==
    /\ pc = "returned"
    /\ Len(finalResult) = 4
    /\ \E i, j \in ResultRows :
        /\ finalResult[i].roomNumber = LabelSouthA
        /\ finalResult[j].roomNumber = LabelSouthB
        /\ finalResult[i].gender = finalResult[j].gender

\* C3: every room label appears at most once among the rows performLottery
\* returns, also when two entries of the input carry the same label.
C3_RoomAtMostOnce ==
    pc = "returned" =>
        \A i, j \in ResultRows :
            finalResult[i].roomNumber = finalResult[j].roomNumber => i = j

\* C4: every row performLottery returns carries the (employeeId, gender) pair
\* of an original entry and the room label of an original entry.
C4_RowsFromOriginal ==
    pc = "returned" =>
        \A i \in ResultRows :
            /\ \E k \in 1..Len(originalData) :
                /\ originalData[k].employeeId = finalResult[i].employeeId
                /\ originalData[k].gender = finalResult[i].gender
            /\ \E k \in 1..Len(originalData) :
                originalData[k].roomNumber = finalResult[i].roomNumber

\* a returned result in which somebody got the room of another row of the
\* input, a bedroom of a shared room
C4_Witness ==
    /\ pc = "returned"
    /\ \E i \in ResultRows, k \in 1..Len(originalData) :
        /\ originalData[k].employeeId = finalResult[i].employeeId
        /\ originalData[k].roomNumber # finalResult[i].roomNumber
        /\ parseRoomNumber(finalResult[i].roomNumber).bedroom # null

\* C5: performLottery returns at most min(employees, slots) rows, and exactly
\* that many when the two counts are equal and no shared group went to the
\* overflow list.  Every entry brings one employee and one slot, so both
\* counts are the length of the original snapshot.  Stated on the step that
\* returns, where the overflow list is still at hand.
C5_CountBound ==
    [][(pc = "finish" /\ pc' = "returned") =>
          /\ Len(finalResult') <= Len(originalData)
          /\ unassignedSharedRooms = <<>> => Len(finalResult') = Len(originalData)]_vars

\* the input of the end-to-end scenario as the spec writes it, and with the
\* two bedrooms written as five-segment labels
C6_Input == MakeData(<<Male, Male, Female>>, <<LabelR1A, LabelR1B, LabelR2>>)
C6_FiveSegmentInput == MakeData(<<Male, Male, Female>>, <<LabelSouthA, LabelSouthB, LabelR2>>)

\* the employee ids a result gives to a room label
Occupants(label) ==
    {finalResult[i].employeeId : i \in {k \in ResultRows : finalResult[k].roomNumber = label}}

\* C6 as claimed: for [(E1,Male,"R1-A"), (E2,Male,"R1-B"), (E3,Female,"R2")]
\* every outcome gives R1-A and R1-B to E1 and E2 in some order and R2 to E3,
\* in 3 rows.
C6_ScenarioAsClaimed ==
    (pc = "returned" /\ originalData = C6_Input) =>
        /\ Len(finalResult) = 3
        /\ Occupants(LabelR1A) \cup Occupants(LabelR1B) = {"E1", "E2"}
        /\ Occupants(LabelR2) = {"E3"}

\* C6 amended: "R1-A" and "R1-B" have two segments, so each is a single room
\* of its own: that input gives 3 rows in which the three slots hold E1, E2
\* and E3, one each, in any pairing.  With the bedrooms written
\* "南-16-1-1001-A" and "南-16-1-1001-B" the two form one shared group, and
\* every outcome gives them to E1 and E2 in some order and R2 to E3, in 3 rows.
C6_Scenario ==
    /\ (pc = "returned" /\ originalData = C6_Input) =>
        /\ Len(finalResult) = 3
        /\ \A label \in {LabelR1A, LabelR1B, LabelR2} : Cardinality(Occupants(label)) = 1
        /\ Occupants(LabelR1A) \cup Occupants(LabelR1B) \cup Occupants(LabelR2)
              = {"E1", "E2", "E3"}
    /\ (pc = "returned" /\ originalData = C6_FiveSegmentInput) =>
        /\ Len(finalResult) = 3
        /\ Cardinality(Occupants(LabelSouthA)) = 1
        /\ Cardinality(Occupants(LabelSouthB)) = 1
        /\ Occupants(LabelSouthA) \cup Occupants(LabelSouthB) = {"E1", "E2"}
        /\ Occupants(LabelR2) = {"E3"}

\* the five-segment scenario has returned with E2 in bedroom A
C6_Witness ==
    /\ pc = "returned"
    /\ originalData = C6_FiveSegmentInput
    /\ Occupants(LabelSouthA) = {"E2"}
    /\ Occupants(LabelR2) = {"E3"}

\* the input of the second scenario: two bedrooms of one room, one single room,
\* two women and a man
C7_Input == MakeData(<<Female, Female, Male>>, <<LabelSouthA, LabelSouthB, LabelR2>>)

\* the group the loop over sharedRooms is at
CurrentGroup == sharedRooms[groupIdx]

\* the step fills the current group from the front of `pool`, in slot order,
\* and leaves `left` behind
FilledFrom(pool, left) ==
    /\ Len(pool) >= Len(CurrentGroup)
    /\ left = SubSeq(pool, Len(CurrentGroup) + 1, Len(pool))
    /\ \A s \in 1..Len(CurrentGroup) :
        /\ CurrentGroup[s].originalIndex \in DOMAIN result'
        /\ result'[CurrentGroup[s].originalIndex]
              = [employeeId |-> pool[s].employeeId, gender |-> pool[s].gender,
                 roomNumber |-> CurrentGroup[s].fullRoom]

\* C7: a shared group of size k processed while exactly one pool holds at least
\* k members is filled entirely from that pool; and for two bedrooms of one room
\* plus one single room with employees [Female, Female, Male] every outcome
\* gives both bedrooms a woman and the single room the man.
C7_OnlySufficientPool ==
    /\ [][(pc = "assignShared" /\ groupIdx <= Len(sharedRooms) /\ groupIdx' = groupIdx + 1) =>
            /\ (Len(maleEmployees) >= Len(CurrentGroup) /\ Len(femaleEmployees) < Len(CurrentGroup))
                => /\ FilledFrom(maleEmployees, maleEmployees')
                   /\ UNCHANGED <<femaleEmployees, unassignedSharedRooms>>
            /\ (Len(femaleEmployees) >= Len(CurrentGroup) /\ Len(maleEmployees) < Len(CurrentGroup))
                => /\ FilledFrom(femaleEmployees, femaleEmployees')
                   /\ UNCHANGED <<maleEmployees, unassignedSharedRooms>>]_vars
    /\ [](pc = "returned" /\ originalData = C7_Input =>
            /\ Len(finalResult) = 3
            /\ \A i \in ResultRows :
                finalResult[i].gender =
                    IF finalResult[i].roomNumber = LabelR2 THEN Male ELSE Female
            /\ Occupants(LabelSouthA) \cup Occupants(LabelSouthB) = {"E1", "E2"}
            /\ Occupants(LabelR2) = {"E3"})

\* the second scenario after the loop over sharedRooms: the two women are gone
\* from their pool into the two bedrooms, the man is still in his
C7_Witness ==
    /\ originalData = C7_Input
    /\ pc = "assignShared"
    /\ groupIdx = 2
    /\ femaleEmployees = <<>>
    /\ Len(maleEmployees) = 1
    /\ DOMAIN result = {1, 2}
    /\ unassignedSharedRooms = <<>>

\* the number of '-' in a label
Dashes(label) == Cardinality({i \in 1..Len(label) : label[i] = 45})

\* a label ends in '-' and one letter and holds at least four '-': its last
\* segment is one letter and it has more than four segments
EndsInBedroom(label) ==
    /\ Len(label) >= 2
    /\ label[Len(label)] \in (65..90) \cup (97..122)
    /\ label[Len(label) - 1] = 45
    /\ Dashes(label) >= 4

\* C8: parseRoomNumber returns the last segment as sub-unit and the other
\* segments rejoined by '-' as baseRoom exactly when the last segment is one
\* letter and there are more than four segments, and otherwise the whole label
\* and no sub-unit; the three examples of the spec; and a returned sub-unit
\* gives back the label as baseRoom + '-' + subUnit.
C8_Parse ==
    pc = "parsed" =>
        /\ IF EndsInBedroom(parseInput)
           THEN /\ parseOutput.bedroom = <<parseInput[Len(parseInput)]>>
                /\ parseOutput.baseRoom = SubSeq(parseInput, 1, Len(parseInput) - 2)
           ELSE /\ parseOutput.bedroom = null
                /\ parseOutput.baseRoom = parseInput
        /\ parseOutput.bedroom # null =>
              parseOutput.baseRoom \o <<45>> \o parseOutput.bedroom = parseInput
        /\ parseInput = LabelSouthA => parseOutput = [baseRoom |-> LabelSouth, bedroom |-> <<65>>]
        /\ parseInput = LabelSouth => parseOutput = [baseRoom |-> LabelSouth, bedroom |-> null]
        /\ parseInput = LabelR2 => parseOutput = [baseRoom |-> LabelR2, bedroom |-> null]

\* "南-16-1-1001-A" was parsed into its room and its bedroom
C8_Witness ==
    /\ pc = "parsed"
    /\ parseInput = LabelSouthA
    /\ parseOutput.bedroom = <<65>>

\* C9: a stopRolling call made while the session is rolling cancels the timer
\* before the allocator runs, runs performLottery once on the original
\* snapshot, stores its result as the current snapshot, calls onUpdate exactly
\* once with (result, false), returns that result and leaves the session not
\* rolling; no timer callback runs in between.  While the call runs
\* (pc # "idle") the session is not rolling and its timer is cancelled and no
\* step is a callback run; the step that ends the call hands out the
\* allocator's result in all three ways.
C9_StopCommits ==
    /\ [](pc # "idle" =>
            /\ call = "stopRolling"
            /\ ~isRolling
            /\ rollInterval = NoTimer
            /\ updates = <<>>)
    /\ [][(pc # "idle" /\ pc' = "idle") =>
            /\ ret'.kind = "value"
            /\ ret'.value = finalResult
            /\ currentData' = finalResult
            /\ updates' = <<[data |-> finalResult, isRolling |-> FALSE]>>
            /\ ~isRolling'
            /\ rollInterval' = NoTimer
            /\ originalData' = originalData]_vars

\* C10: a stopRolling call made while the session is not rolling returns the
\* current snapshot, runs no allocator, calls no onUpdate and changes no field
\* of the session; and of two stopRolling calls in succession that returned,
\* the second returns what the first did.
C10_StopWhenNotRolling ==
    /\ [][(pc = "idle" /\ ~isRolling /\ call' = "stopRolling") =>
            /\ ret' = Returned(currentData)
            /\ updates' = <<>>
            /\ pc' = "idle"
            /\ UNCHANGED <<sessionVars, lotteryVars>>]_vars
    /\ [][(pc = "idle" /\ call = "stopRolling" /\ ret.kind = "value"
             /\ pc' = "idle" /\ call' = "stopRolling") =>
            ret' = ret]_vars

\* a stopRolling call on a committed session returned the committed result,
\* which is not the loaded dataset, and called nothing
C10_Witness ==
    /\ pc = "idle"
    /\ call = "stopRolling"
    /\ ~isRolling
    /\ updates = <<>>
    /\ ret = Returned(currentData)
    /\ currentData # originalData
    /\ Len(currentData) = 2

\* C11: after any sequence of init, startRolling, stopRolling and timer
\* callbacks at most one preview timer is live, and a startRolling call made
\* while the session is rolling creates no timer and changes no field.
C11_AtMostOneTimer ==
    /\ [](Cardinality(DOMAIN timers) <= 1)
    /\ [][(pc = "idle" /\ isRolling /\ call' = "startRolling") =>
            UNCHANGED sessionVars]_vars

\* C12: init(entries), called in any state, leaves both snapshots equal to
\* entries and the session not rolling, and cancels an active roll: no timer
\* is live when init has returned, and no preview tick follows it.
C12_InitCancelsRoll ==
    /\ [][(pc = "idle" /\ call' = "init") =>
            /\ originalData' = passedData'
            /\ currentData' = passedData'
            /\ ~isRolling']_vars
    /\ [](call = "init" => DOMAIN timers = {})
    /\ [][call = "init" => call' # "tick"]_vars

\* C13: the last onUpdate call of a roll is the (result, false) call of the
\* commit, and once stopRolling has committed no timer is live and no
\* preview tick follows, whatever the calls that preceded the stop.
C13_NoTickAfterCommit ==
    /\ [][(pc = "returned" /\ pc' = "idle") =>
            /\ updates' = <<[data |-> finalResult, isRolling |-> FALSE]>>
            /\ DOMAIN timers' = {}]_vars
    /\ [][(pc = "idle" /\ call = "stopRolling" /\ ret.kind = "value" /\ updates # <<>>) =>
            call' # "tick"]_vars

\* C14: getCurrentData returns the current snapshot in every state and
\* changes nothing: the snapshot is empty as long as there was no init (no
\* array was passed yet), it is the loaded entries after init and the
\* committed result after a stopRolling commit, and no other step, so neither
\* startRolling nor a preview tick, changes it.
C14_GetCurrentData ==
    /\ [][(pc = "idle" /\ call' = "getCurrentData") =>
            /\ ret' = Returned(currentData)
            /\ updates' = <<>>
            /\ UNCHANGED <<sessionVars, lotteryVars>>]_vars
    /\ [](passedData = <<>> => currentData = <<>>)
    /\ [][(pc = "idle" /\ call' = "init") => currentData' = passedData']_vars
    /\ [][(pc = "returned" /\ pc' = "idle") => currentData' = finalResult]_vars
    /\ [][currentData' # currentData =>
            \/ pc = "idle" /\ call' = "init"
            \/ pc = "returned" /\ pc' = "idle"]_vars

\* getCurrentData was called during a second roll and gave the result the
\* first roll committed, which is not the loaded dataset
C14_Witness ==
    /\ pc = "idle"
    /\ call = "getCurrentData"
    /\ isRolling
    /\ ret = Returned(currentData)
    /\ currentData # originalData

\* C15: every preview tick passes onUpdate, with isRolling = true, as many
\* rows as the original dataset has at the time of the tick, each row's
\* (employeeId, gender) that of one original entry and its room label that of
\* one original entry, also when init loaded another dataset after the roll
\* began.
C15_TickRows ==
    call = "tick" =>
        /\ Len(updates) = 1
        /\ updates[1].isRolling
        /\ Len(updates[1].data) = Len(originalData)
        /\ \A i \in 1..Len(updates[1].data) :
            /\ \E e \in 1..Len(originalData) :
                /\ updates[1].data[i].employeeId = originalData[e].employeeId
                /\ updates[1].data[i].gender = originalData[e].gender
            /\ \E r \in 1..Len(originalData) :
                updates[1].data[i].roomNumber = originalData[r].roomNumber

\* C16: the original snapshot changes only in init: no step of startRolling,
\* of a preview tick, of stopRolling or of performLottery changes its content
\* or order, and a write of the caller to the array it passed to init leaves
\* it as it was.
C16_OriginalOnlyInInit ==
    /\ [][originalData' # originalData => (pc = "idle" /\ call' = "init")]_vars
    /\ [][call' = "callerWrites" =>
            (passedData' # passedData /\ originalData' = originalData)]_vars

\* a roll committed after the caller wrote to the array it had passed
C16_Witness ==
    /\ pc = "idle"
    /\ call = "stopRolling"
    /\ updates # <<>>
    /\ passedData # originalData
    /\ currentData # originalData

\* C17: each commit is computed from the original snapshot alone: whatever
\* came before, performLottery starts with fresh locals, builds its pools and
\* groups from originalData, returns one of the arrays that are possible for
\* originalData, and that array replaces the current snapshot.
C17_CommitFromOriginal ==
    /\ [](pc = "performLottery" => NoFrameInit)
    /\ [][(pc = "performLottery" /\ pc' = "shuffleEmployees") =>
            LET rooms == [i \in 1..Len(originalData) |-> originalData[i].roomNumber]
                entries == objectEntries(addRooms(<<>>, rooms, 1).groups)
            IN  /\ maleEmployees' = employeesOf(originalData, Male)
                /\ femaleEmployees' = employeesOf(originalData, Female)
                /\ sharedRooms' = sharedRoomsOf(entries)
                /\ singleRooms' = singleRoomsOf(entries)]_vars
    /\ [](pc = "returned" => finalResult \in Outcomes(originalData))
    /\ [][(pc = "returned" /\ pc' = "idle") => currentData' = finalResult]_vars

\* a later commit of a dataset: the current snapshot is an earlier result,
\* not the loaded order, and performLottery returned another array
C17_Witness ==
    /\ pc = "returned"
    /\ currentData # originalData
    /\ Len(currentData) = Len(originalData)
    /\ finalResult # currentData
    /\ finalResult # originalData

\* the text is trimmed and not empty
TrimmedText(text) == text # <<>> /\ trim(text) = text

\* C18: every entry readFile hands over has a non-empty trimmed employeeId, a
\* non-empty room label, a gender that is '男' or '女', and an employeeId no
\* other entry handed over has.
C18_ReadEntries ==
    pc = "resolved" =>
        \A i \in 1..Len(readData) :
            /\ TrimmedText(readData[i].employeeId)
            /\ readData[i].roomNumber # <<>>
            /\ readData[i].gender \in {GenderMale, GenderFemale}
            /\ \A j \in 1..Len(readData) :
                readData[j].employeeId = readData[i].employeeId => j = i

\* C19: performLottery is total: on every dataset of entries with non-empty
\* employeeId and room label it returns and never throws.
C19_NeverThrows == pc # "thrown"

\* the step took the first members of `pool`, one for each slot of the group,
\* front to back in slot order, and left `left`
TookFront(pool, left, roomGroup) ==
    /\ Len(pool) >= Len(roomGroup)
    /\ left = SubSeq(pool, Len(roomGroup) + 1, Len(pool))
    /\ result' = [x \in (DOMAIN result) \cup {roomGroup[s].originalIndex : s \in 1..Len(roomGroup)} |->
                     IF \E s \in 1..Len(roomGroup) : roomGroup[s].originalIndex = x
                     THEN LET s == CHOOSE t \in 1..Len(roomGroup) : roomGroup[t].originalIndex = x
                          IN  rowOf(pool[s], roomGroup[s].fullRoom)
                     ELSE result[x]]

\* C20: a pass of the loop over the shared groups does exactly one of two
\* things with its group of size k: it takes the first k members of one pool
\* that held at least k, front to back in slot order, and leaves the other
\* pool and the overflow list alone; or, neither pool holding k, it appends
\* the k slots to the overflow list and leaves both pools and the result
\* alone.  No group is filled in part or from both pools.
C20_FillOrOverflow ==
    [][(pc = "assignShared" /\ groupIdx' = groupIdx + 1) =>
        LET roomGroup == sharedRooms[groupIdx]
            k == Len(roomGroup)
        IN  \/ /\ TookFront(maleEmployees, maleEmployees', roomGroup)
               /\ UNCHANGED <<femaleEmployees, unassignedSharedRooms>>
            \/ /\ TookFront(femaleEmployees, femaleEmployees', roomGroup)
               /\ UNCHANGED <<maleEmployees, unassignedSharedRooms>>
            \/ /\ Len(maleEmployees) < k
               /\ Len(femaleEmployees) < k
               /\ unassignedSharedRooms' = unassignedSharedRooms \o roomGroup
               /\ UNCHANGED <<maleEmployees, femaleEmployees, result>>]_vars

\* one group was filled and a later one went to the overflow list
C20_Witness ==
    /\ pc = "assignShared"
    /\ groupIdx = 3
    /\ DOMAIN result # {}
    /\ Len(unassignedSharedRooms) = 2

\* the groups the grouping made, shared ones first: each a sequence of slots
GroupsMade == sharedRooms \o [i \in 1..Len(singleRooms) |-> <<singleRooms[i]>>]

\* the position in the input of the first slot of each group of a list grows
\* along the list
FirstSeenOrder(groups) ==
    \A g, h \in 1..Len(groups) : g < h => groups[g][1].originalIndex < groups[h][1].originalIndex

\* every input position is a slot of exactly one group, two positions share a
\* group iff their labels parse to one baseRoom, the groups listed as shared
\* are those of 2 slots or more, and the slots of a group are in input order
GroupsPartition ==
    LET n == Len(originalData)
        baseRoomAt(i) == parseRoomNumber(originalData[i].roomNumber).baseRoom
        groupsOf(i) == {g \in 1..Len(GroupsMade) :
                           \E s \in 1..Len(GroupsMade[g]) : GroupsMade[g][s].originalIndex = i}
    IN  /\ \A i \in 1..n : Cardinality(groupsOf(i)) = 1
        /\ \A g \in 1..Len(GroupsMade) :
            /\ Len(GroupsMade[g]) >= 1
            /\ \A s \in 1..Len(GroupsMade[g]) :
                /\ GroupsMade[g][s].originalIndex \in 1..n
                /\ GroupsMade[g][s].fullRoom
                      = originalData[GroupsMade[g][s].originalIndex].roomNumber
            /\ \A s, t \in 1..Len(GroupsMade[g]) :
                s < t => GroupsMade[g][s].originalIndex < GroupsMade[g][t].originalIndex
        /\ \A i, j \in 1..n : (groupsOf(i) = groupsOf(j)) <=> (baseRoomAt(i) = baseRoomAt(j))
        /\ \A g \in 1..Len(sharedRooms) : Len(sharedRooms[g]) >= 2

\* C21: grouping partitions the slots: every input position is in exactly one
\* group, two positions are in one group iff their labels parse to the same
\* baseRoom, a group is shared iff it has at least 2 slots and single iff it
\* has exactly 1, the groups of each list are in the order their baseRoom was
\* first seen in the input, and the slots of a group keep input order.
C21_Grouping ==
    pc = "shuffleEmployees" =>
        /\ GroupsPartition
        /\ FirstSeenOrder(sharedRooms)
        /\ FirstSeenOrder([i \in 1..Len(singleRooms) |-> <<singleRooms[i]>>])

\* C24: when every gender of the snapshot is one of the two canonical values,
\* a performLottery run that reaches the filling phase places everyone: every
\* slot position is assigned before the filter, the array returned has as
\* many rows as the snapshot, and every employee of the snapshot is in it,
\* also when a shared group went to the overflow list.
C24_EveryonePlaced ==
    /\ [](/\ pc = "finish"
          /\ \A i \in 1..Len(originalData) : originalData[i].gender \in {Male, Female}
          => DOMAIN result = 1..Len(originalData))
    /\ [](/\ pc = "returned"
          /\ \A i \in 1..Len(originalData) : originalData[i].gender \in {Male, Female}
          => /\ Len(finalResult) = Len(originalData)
             /\ \A i \in 1..Len(originalData) :
                 \E r \in 1..Len(finalResult) :
                     /\ finalResult[r].employeeId = originalData[i].employeeId
                     /\ finalResult[r].gender = originalData[i].gender)

\* a run on canonical genders in which a shared group went to the overflow
\* list and every slot was assigned
C24_Witness ==
    /\ pc = "finish"
    /\ \A i \in 1..Len(originalData) : originalData[i].gender \in {Male, Female}
    /\ unassignedSharedRooms # <<>>
    /\ Len(sharedRooms) = 2
    /\ DOMAIN result = 1..Len(originalData)

\* how many times x is an element of the array
CountIn(array, x) == Cardinality({i \in 1..Len(array) : array[i] = x})

\* every arrangement of the array: its elements read through a one-to-one map
\* of the positions
Arrangements(array) ==
    LET n == Len(array)
        oneToOne == {f \in [1..n -> 1..n] : \A i, j \in 1..n : f[i] = f[j] => i = j}
    IN  {[i \in 1..n |-> array[f[i]]] : f \in oneToOne}

\* C22: shuffleArray leaves a permutation of its input, the same elements
\* with the same multiplicities and the same length, and every permutation of
\* the input is produced by some choice of the draws j in [0, i].
C22_Shuffle ==
    /\ pc = "shuffled" =>
        /\ Len(shuffleOutput) = Len(shuffleInput)
        /\ \A x \in 1..3 : CountIn(shuffleOutput, x) = CountIn(shuffleInput, x)
    /\ pc = "shuffleArray" =>
        \A p \in Arrangements(shuffleInput) :
            \E d \in Draws(Len(shuffleInput)) : shuffleArray(shuffleInput, d) = p

\* a shuffle moved the elements of an array that holds one element twice
C22_Witness ==
    /\ pc = "shuffled"
    /\ Len(shuffleInput) = 3
    /\ CountIn(shuffleInput, 1) = 2
    /\ shuffleOutput # shuffleInput

\* the rows are in the order of their room labels
SortedByRoom(data) ==
    \A i \in 1..Len(data) : \A j \in (i + 1)..Len(data) :
        ~roomBefore(data[j].roomNumber, data[i].roomNumber)

\* C23: a click on either export button leaves currentData, the array
\* getCurrentData returns, with the same rows in the same order as before the
\* click; what is sorted by room label is a copy holding the same rows.
C23_ExportKeepsOrder ==
    [][(exportExcelBtnClick \/ exportPdfBtnClick) =>
            /\ currentData' = currentData
            /\ SortedByRoom(sortedData')
            /\ Len(sortedData') = Len(currentData)
            /\ \A i \in 1..Len(currentData) : CountIn(sortedData', currentData[i]) = 1]_vars

\* an export has sorted its copy into another order than that of the
\* committed result, which the session still holds in its own order
C23_Witness ==
    /\ call \in {"exportToExcel", "exportToPDF"}
    /\ Len(currentData) = 2
    /\ ~SortedByRoom(currentData)
    /\ SortedByRoom(sortedData)
    /\ sortedData # currentData

\* C25: while the export buttons show, that is from the moment stopLottery
\* has rendered a committed result until the next file load, lottery-button
\* click or home click, the table shows the committed result and no step turns
\* it into a rolling preview.
C25_CommittedTableStays ==
    /\ [](pc = "idle" /\ ~exportBtnsHidden =>
            ~tableBody.isRolling /\ tableBody.data = currentData)
    /\ [][pc = "idle" /\ ~exportBtnsHidden => ~tableBody'.isRolling]_vars

\* C26: between handlers, LotteryModule.isRolling is true exactly when
\* isLotteryStarted is true and isLotteryComplete is false.
C26_FlagsAgree ==
    pc = "idle" => (isRolling <=> (isLotteryStarted /\ ~isLotteryComplete))

\* C27: whenever the export buttons show, currentData (what getCurrentData
\* returns) is a result performLottery gives on the loaded dataset: the
\* buttons are shown only by the step that commits a result, currentData is
\* not written while they show, and every file load, re-roll start and click
\* on the home button hides them.
C27_ExportsShowCommit ==
    /\ [](pc = "idle" /\ ~exportBtnsHidden =>
            /\ isLotteryComplete
            /\ ~isRolling
            /\ currentData \in Outcomes(originalData))
    /\ [][exportBtnsHidden /\ ~exportBtnsHidden' =>
            /\ pc = "returned"
            /\ currentData' = finalResult]_vars
    /\ [][~exportBtnsHidden /\ ~exportBtnsHidden' =>
            /\ currentData' = currentData
            /\ originalData' = originalData]_vars
    /\ [][\/ pendingFiles' # pendingFiles /\ filesSelected' = filesSelected
          \/ isLotteryComplete /\ ~isLotteryComplete' /\ isLotteryStarted'
          \/ ~lotterySectionHidden /\ lotterySectionHidden'
          => exportBtnsHidden']_vars

\* the export buttons show over a committed result whose rows are not those
\* of the upload, while a timer of an earlier roll is still live
C27_Witness ==
    /\ pc = "idle"
    /\ ~exportBtnsHidden
    /\ Len(currentData) = 2
    /\ currentData # originalData
    /\ DOMAIN timers # {}

\* the locals of the two definitions hold the same values; the earlier
\* definition's singleRooms is the later one's allSingleRooms once shuffled
FramesAgree ==
    /\ first.maleEmployees = maleEmployees
    /\ first.femaleEmployees = femaleEmployees
    /\ first.sharedRooms = sharedRooms
    /\ first.result = result
    /\ first.remainingEmployees = remainingEmployees
    /\ first.singleRooms = IF pc \in {"assignSingle", "finish"} THEN allSingleRooms
                           ELSE singleRooms

\* the round of the loop over sharedRooms about to run finds fewer people
\* than the group has slots in the men's pool and in the women's pool
ShortGroup ==
    /\ pc = "assignShared"
    /\ groupIdx <= Len(sharedRooms)
    /\ Len(maleEmployees) < Len(sharedRooms[groupIdx])
    /\ Len(femaleEmployees) < Len(sharedRooms[groupIdx])

\* C28: run on the same dataset and the same outcomes of Math.random(), the
\* two definitions of performLottery go through the same values and return
\* the same array as long as no shared group has met pools that are both
\* shorter than the group; in a round where one does, the later definition
\* fills nothing and appends all the slots of the group to
\* unassignedSharedRooms, while the earlier one fills the first slots of the
\* group, fewer than the group has, with the whole of its larger pool (the
\* men's when the pools are as long) and leaves the other pool alone.
C28_SameUnlessShort ==
    /\ [](pc \in {"shuffleEmployees", "shuffleShared", "assignShared", "mergeSingle",
                  "assignSingle", "finish"} /\ unassignedSharedRooms = <<>>
            => FramesAgree)
    /\ [][pc = "finish" /\ unassignedSharedRooms = <<>>
            => first'.finalResult = finalResult']_vars
    /\ [][ShortGroup =>
            LET roomGroup == sharedRooms[groupIdx]
                takesMale == Len(first.maleEmployees) >= Len(first.femaleEmployees)
                pool == IF takesMale THEN first.maleEmployees ELSE first.femaleEmployees
            IN  /\ unassignedSharedRooms' = unassignedSharedRooms \o roomGroup
                /\ result' = result
                /\ maleEmployees' = maleEmployees
                /\ femaleEmployees' = femaleEmployees
                /\ Len(pool) < Len(roomGroup)
                /\ first'.result =
                        [index \in (DOMAIN first.result) \cup
                                   {roomGroup[i].originalIndex : i \in 1..Len(pool)} |->
                            IF \E i \in 1..Len(pool) : roomGroup[i].originalIndex = index
                            THEN LET i == CHOOSE i \in 1..Len(pool) :
                                              roomGroup[i].originalIndex = index
                                 IN  rowOf(pool[i], roomGroup[i].fullRoom)
                            ELSE first.result[index]]
                /\ first'.maleEmployees = IF takesMale THEN <<>> ELSE first.maleEmployees
                /\ first'.femaleEmployees =
                        IF takesMale THEN first.femaleEmployees ELSE <<>>]_vars

\* both definitions have filled a shared group and a single room with the
\* same people, no group having been short
C28_Witness ==
    /\ pc = "finish"
    /\ unassignedSharedRooms = <<>>
    /\ sharedRooms # <<>>
    /\ singleRooms # <<>>
    /\ Len(filterAssigned(result, 1, Len(originalData))) >= 3
    /\ first.result = result
====
